---- MODULE Spec2Model ----
(***************************************************************************)
(* Model of the three build-repair scripts fixcompile.py, testfix.py and   *)
(* readrepotofix.py: the main loop (LogCapture, ErrorExtractor,            *)
(* RelevanceResolver, FixDelegate), the two artifacts build_log.txt and    *)
(* error_log.txt, and the process exit.                                    *)
(*                                                                         *)
(* A Python string is a sequence of tokens.  The token "\n" is the newline *)
(* character, " " a space, ":" a colon, "/" a slash, "." a dot; every      *)
(* other token stands for the run of characters it spells.                 *)
(***************************************************************************)
EXTENDS Integers, Sequences, FiniteSets, TLC

VARIABLES
    script,           \* which of the three scripts runs
    pom_exists,       \* os.path.exists("./pom.xml")
    java_files,       \* the .java files on disk under src/main/java
    ast,              \* what javalang returns for the one source file
    i,                \* loop index of main
    pc,               \* position inside main
    state,            \* RUNNING, SUCCESS, NO_SIGNAL, EXHAUSTED or CRASHED
    compile_success,
    test_success,
    compile_out,      \* output of the last compile step
    test_out,         \* output of the last test step
    test_ran,         \* whether the last LogCapture ran the test step
    log_file,         \* build_log.txt
    error_log,        \* error_log.txt
    error_lines,      \* the error blocks the extractor kept (the batch)
    error_text,       \* what the extractor returned
    files_to_fix,     \* what the resolver returned
    warned,           \* the warning the last resolution printed
    knowledge_files,  \* the Markdown documents of knowledge_repo, as globbed
    knowledge_names,  \* their file names, in the same order
    fix_request,      \* the last request run_aider_fix sent to the agent
    fix_result,       \* what run_aider_fix returned
    exit_code,        \* the process exit status
    raised,           \* the exception that ended the process, if any
    printed,          \* the terminal reports printed so far
    n_builds,         \* LogCapture runs so far
    n_extract,        \* ErrorExtractor runs so far
    n_fix,            \* FixDelegate calls so far
    n_agent           \* fixing-agent invocations made by FixDelegate so far

vars == <<script, pom_exists, java_files, ast, i, pc, state,
          compile_success, test_success, compile_out, test_out, test_ran,
          log_file, error_log, error_lines, error_text, files_to_fix, warned,
          knowledge_files, knowledge_names, fix_request, fix_result,
          exit_code, raised, printed, n_builds, n_extract, n_fix, n_agent>>

\* ------------------------------------------------------------ configuration

MAX_ITERATIONS == 10
MAX_ERROR_LINES == 50
\* lines[i:i+6]: the marker line plus five lines of context
WINDOW == 6

\* Optional[str]: None, or a string
None == [none |-> TRUE, s |-> <<>>]
Some(x) == [none |-> FALSE, s |-> x]
Scripts == {"fixcompile", "testfix", "readrepotofix"}
UsesAiderBuild(s) == s \in {"fixcompile", "readrepotofix"}

\* ------------------------------------------------------------------ strings

NL == "\n"
MARKER == "[ERROR]"
BUILD_SUCCESS == <<"BUILD", " ", "SUCCESS">>
TRUNCATION_NOTE ==
    <<NL, "[Note:", " ", "Error", " ", "log", " ", "truncated.", " ", "Showing",
      " ", "first", " ", "unique", " ", "errors", " ", "only.]">>
Digits == {"7", "9"}

\* the n-th smallest element of a set of integers
Nth(S, n) == CHOOSE p \in S : Cardinality({q \in S : q < p}) = n - 1
Min(S) == CHOOSE p \in S : \A q \in S : p <= q
Max(S) == CHOOSE p \in S : \A q \in S : q <= p

RECURSIVE Concat(_)
\* "".join(parts)
Concat(parts) ==
    IF Len(parts) = 0 THEN <<>>
    ELSE IF Len(parts) = 1 THEN parts[1]
    ELSE LET h == Len(parts) \div 2
         IN  Concat(SubSeq(parts, 1, h)) \o Concat(SubSeq(parts, h + 1, Len(parts)))

\* x in s, for a one-token x
Contains(s, x) == \E k \in 1..Len(s) : s[k] = x

\* pat in s, for a string pat ('' is in every string)
ContainsSeq(s, pat) ==
    \E k \in 0..(Len(s) - Len(pat)) :
        \A j \in 1..Len(pat) : s[k + j] = pat[j]

\* the last position of every line of s: each newline, and the end of s when
\* s does not end with a newline
LineEnds(s) ==
    {k \in 1..Len(s) : s[k] = NL \/ k = Len(s)}

\* The lines of s; keepends tells whether each line keeps its newline.
LinesOf(s, keepends) ==
    LET ends == LineEnds(s)
    IN  [j \in 1..Cardinality(ends) |->
            LET e == Nth(ends, j)
                b == IF j = 1 THEN 1 ELSE Nth(ends, j - 1) + 1
            IN  SubSeq(s, b, IF s[e] = NL /\ ~keepends THEN e - 1 ELSE e)]

\* file.readlines(): every line keeps its trailing newline
ReadLines(s) == LinesOf(s, TRUE)
\* str.splitlines(): the newlines are dropped
SplitLines(s) == LinesOf(s, FALSE)

\* lines[a:b] with Python's 0-based, clipped slice
Slice(lines, a, b) ==
    LET hi == IF b < Len(lines) THEN b ELSE Len(lines)
    IN  IF a >= hi THEN <<>> ELSE SubSeq(lines, a + 1, hi)

\* the length of the longest run of digit tokens of s that starts at k
DigitRun(s, k) ==
    Min({j \in k..(Len(s) + 1) : j > Len(s) \/ s[j] \notin Digits}) - k

\* whether :\d+: matches at position k of s: the length of the match, or 0
ColonNumMatch(s, k) ==
    IF k <= Len(s) /\ s[k] = ":"
    THEN LET d == DigitRun(s, k + 1)
         IN  IF d >= 1 /\ k + d + 1 <= Len(s) /\ s[k + d + 1] = ":"
             THEN d + 2 ELSE 0
    ELSE 0

RECURSIVE SubLineFrom(_, _)
\* re.sub(r":\d+:", ":<line>:", s) from position k on: the leftmost match is
\* replaced, and the scan goes on behind it
SubLineFrom(s, k) ==
    LET starts == {p \in k..Len(s) : ColonNumMatch(s, p) > 0}
    IN  IF starts = {} THEN SubSeq(s, k, Len(s))
        ELSE LET p == Min(starts)
             IN  SubSeq(s, k, p - 1) \o <<":", "<line>", ":">>
                 \o SubLineFrom(s, p + ColonNumMatch(s, p))

\* error_signature without the normalization: the line itself
error_signature_raw(line) == line

\* re.sub(r":\d+:", ":<line>:", line)
error_signature(line) == SubLineFrom(line, 1)

\* ------------------------------------------------------------ ErrorExtractor

\* "[ERROR]" in line
HasMarker(line) == Contains(line, MARKER)

\* len(error_lines) * 6 >= MAX_ERROR_LINES: the break of the scan
BudgetReached(n) == n * WINDOW >= MAX_ERROR_LINES

RECURSIVE ScanErrors(_, _, _, _)
\* The for loop of extract_and_trim_errors and of trim_error_log, from index k
\* (0-based) on: the blocks kept, in order.  The lines that are skipped (no
\* marker, or a signature already seen) change nothing, so the scan goes
\* straight to the next line that is kept.
ScanErrors(lines, k, blocks, seen) ==
    LET keep == {n \in k..(Len(lines) - 1) :
                    /\ HasMarker(lines[n + 1])
                    /\ error_signature(lines[n + 1]) \notin seen}
    IN  IF keep = {} THEN blocks
        ELSE LET n    == Min(keep)
                 kept == Append(blocks, Concat(Slice(lines, n, n + WINDOW)))
             IN  IF BudgetReached(Len(kept)) THEN kept
                 ELSE ScanErrors(lines, n + 1, kept,
                                 seen \cup {error_signature(lines[n + 1])})

RECURSIVE KeptLines(_, _, _, _)
\* The same loop, from index k (0-based) on: the indices of the lines whose
\* block is appended to error_lines, in order.
KeptLines(lines, k, kept, seen) ==
    LET keep == {n \in k..(Len(lines) - 1) :
                    /\ HasMarker(lines[n + 1])
                    /\ error_signature(lines[n + 1]) \notin seen}
    IN  IF keep = {} THEN kept
        ELSE LET n == Min(keep)
             IN  IF BudgetReached(Len(kept) + 1) THEN Append(kept, n)
                 ELSE KeptLines(lines, n + 1, Append(kept, n),
                                seen \cup {error_signature(lines[n + 1])})

\* the truncation note is appended when the scanned text has more than
\* MAX_ERROR_LINES lines
WithNote(trimmed, nlines) ==
    IF nlines > MAX_ERROR_LINES /\ trimmed # <<>>
    THEN trimmed \o TRUNCATION_NOTE ELSE trimmed

\* extract_and_trim_errors of fixcompile.py and readrepotofix.py on an existing
\* log: what is written to error_log.txt and what is returned
extract_and_trim_errors(log) ==
    LET lines  == ReadLines(log)
        blocks == ScanErrors(lines, 0, <<>>, {})
    IN  [written |-> Concat(blocks),
         blocks  |-> blocks,
         text    |-> IF blocks = <<>> THEN None
                     ELSE Some(WithNote(Concat(blocks), Len(lines)))]

\* the list error_lines that the loop of trim_error_log builds
trim_error_blocks(text) == ScanErrors(SplitLines(text), 0, <<>>, {})

\* trim_error_log of testfix.py
trim_error_log(text) ==
    WithNote(Concat(trim_error_blocks(text)), Len(SplitLines(text)))

\* the first loop of extract_errors: every marker line's window, in the
\* order of the marker lines, as one list of lines
AllWindows(lines) ==
    LET marks == {n \in 0..(Len(lines) - 1) : HasMarker(lines[n + 1])}
    IN  Concat([j \in 1..Cardinality(marks) |->
                   Slice(lines, Nth(marks, j), Nth(marks, j) + WINDOW)])

\* extract_errors of testfix.py on an existing log
extract_errors(log) ==
    LET window_lines == AllWindows(ReadLines(log))
    IN  [written |-> Concat(window_lines),
         blocks  |-> trim_error_blocks(Concat(window_lines)),
         text    |-> IF window_lines = <<>> THEN None
                     ELSE Some(trim_error_log(Concat(window_lines)))]

\* the lines that the loop scans: the log's lines in fixcompile.py and
\* readrepotofix.py, the lines of the joined windows in testfix.py
ScannedLines(s, log) ==
    IF s = "testfix" THEN SplitLines(Concat(AllWindows(ReadLines(log))))
    ELSE ReadLines(log)

\* the extractor the script calls
Extract(s, log) ==
    IF s = "testfix" THEN extract_errors(log) ELSE extract_and_trim_errors(log)

\* NoErrorsFound as `error_text == ""`: None is not taken for "no errors"
NoErrorsFoundEmptyOnly(text) == ~text.none /\ text.s = <<>>

\* `not error_text` in main
NoErrorsFound(text) == text.none \/ text.s = <<>>

\* --------------------------------------------------------- RelevanceResolver

POM_PATH == <<".", "/", "pom.xml">>
JAVA_EXT == ".java"
IsSpace(t) == t \in {" ", NL}

\* the last position of the run of non-space tokens that starts at k
RunEnd(s, k) ==
    Min({j \in k..Len(s) : j = Len(s) \/ IsSpace(s[j + 1])})

\* the positions j of the run that starts at k where \.java:\d+: matches with
\* at least one token of the run before it
JavaRefs(s, k) ==
    {j \in (k + 1)..RunEnd(s, k) :
        s[j] = JAVA_EXT /\ ColonNumMatch(s, j + 1) > 0}

\* re.findall(r"(\S+\.java):(?:\d+):", s): the captured groups in order.  A
\* match starts at the start of a run of non-space tokens; \S+ is greedy, so
\* it takes the last ".java:<digits>:" of the run, and nothing of the run
\* behind that can match again.
FindAll(s) ==
    LET starts == {k \in 1..Len(s) :
                      /\ ~IsSpace(s[k])
                      /\ (k = 1 \/ IsSpace(s[k - 1]))
                      /\ JavaRefs(s, k) # {}}
    IN  [n \in 1..Cardinality(starts) |->
            LET k == Nth(starts, n) IN SubSeq(s, k, Max(JavaRefs(s, k)))]

RECURSIVE LStrip(_)
LStrip(f) == IF f # <<>> /\ Head(f) = "/" THEN LStrip(Tail(f)) ELSE f
RECURSIVE RStrip(_)
RStrip(f) ==
    IF f # <<>> /\ f[Len(f)] = "/" THEN RStrip(SubSeq(f, 1, Len(f) - 1)) ELSE f

\* os.path.join(PROJECT_DIR, f.strip("/"))
JoinProject(f) == <<".", "/">> \o RStrip(LStrip(f))

\* {os.path.join(PROJECT_DIR, f.strip("/")) for f in file_matches}
ErrorFiles(text) ==
    LET m == FindAll(text) IN {JoinProject(m[k]) : k \in 1..Len(m)}

\* get_subdir_files: pom.xml if it exists, and the sources under the subtree
get_subdir_files(pom, javas) == (IF pom THEN {POM_PATH} ELSE {}) \cup javas

\* What the parse of a file gives: kind "ok" with the tree's import paths,
\* class names and method invocations; "syntax_error" (parse_java_file
\* returns None); "unreadable" (open or read raises an error that
\* parse_java_file does not catch).
NoQualifier == [none |-> TRUE, s |-> <<>>]

RECURSIVE InvocationScan(_, _)
\* The loop over MethodInvocation nodes: "hit" when a node matches (break),
\* "raise" when `node.qualifier in error_text` is evaluated with qualifier
\* None (TypeError), "miss" when the loop ends without a match.
InvocationScan(invs, text) ==
    IF invs = <<>> THEN "miss"
    ELSE LET node == Head(invs)
         IN  IF ContainsSeq(text, node.member) THEN "hit"
             ELSE IF node.qualifier.none THEN "raise"
             ELSE IF ContainsSeq(text, node.qualifier.s) THEN "hit"
             ELSE InvocationScan(Tail(invs), text)

\* whether the resolver of script s raises on candidate file f
ResolveRaisesOn(s, tree, text) ==
    \/ tree.kind = "unreadable"
    \/ /\ s = "fixcompile"
       /\ tree.kind = "ok"
       /\ InvocationScan(tree.invocations, text) = "raise"

\* fixcompile.py: candidate_files
CandidateFiles(text, subdir_files) == subdir_files \cap ErrorFiles(text)

RECURSIVE DropDotSlash(_)
\* a relative path without its leading "./" segments
DropDotSlash(f) ==
    IF Len(f) >= 2 /\ f[1] = "." /\ f[2] = "/" THEN DropDotSlash(SubSeq(f, 3, Len(f)))
    ELSE f

\* the file that the operating system opens for the relative path f, as glob
\* names it: "././x" is "./x"
DiskFile(f) == <<".", "/">> \o DropDotSlash(f)

\* testfix.py: java_files, the referenced paths for which os.path.exists holds
ExistingFiles(text, disk) == {f \in ErrorFiles(text) : DiskFile(f) \in disk}

\* The files the resolver of script s visits with the parser.
Parsed(s, text, pom, javas) ==
    IF s = "fixcompile" THEN CandidateFiles(text, get_subdir_files(pom, javas))
    ELSE IF s = "testfix" THEN ExistingFiles(text, javas)
    ELSE {}

\* RelevantFiles without the build descriptor
RelevantFilesWithoutDescriptor(s, text, pom, javas, trees) ==
    IF s = "testfix" THEN ExistingFiles(text, javas)
    ELSE CandidateFiles(text, get_subdir_files(pom, javas))

\* get_relevant_files_from_error / get_relevant_files, when no parse raises:
\* the descriptor if it exists, and the stage-1 matches.  testfix.py adds each
\* referenced file before it parses it (line 62) and readrepotofix.py adds
\* relevant_files (line 171); fixcompile.py adds a candidate at lines 142-143,
\* which the `continue` of line 121 skips when parse_java_file returned None.
RelevantFiles(s, text, pom, javas, trees) ==
    (IF pom THEN {POM_PATH} ELSE {})
    \cup (IF s = "testfix" THEN ExistingFiles(text, javas)
          ELSE IF s = "readrepotofix"
          THEN CandidateFiles(text, get_subdir_files(pom, javas))
          ELSE {f \in CandidateFiles(text, get_subdir_files(pom, javas)) :
                   DiskFile(f) \in DOMAIN trees /\ trees[DiskFile(f)].kind = "ok"})

\* The warning the resolver prints before it returns: fixcompile.py when no
\* file besides pom.xml is in the result (line 145), testfix.py when the
\* result is empty (line 75), readrepotofix.py when no source file of the
\* subtree is referenced (line 173).
ResolverWarning(s, files, relevant_files) ==
    IF s = "fixcompile"
    THEN (IF files \ {POM_PATH} = {} THEN "no_java_matched" ELSE "none")
    ELSE IF s = "testfix"
    THEN (IF files = {} THEN "no_files_identified" ELSE "none")
    ELSE (IF relevant_files = {} THEN "no_java_in_subdir" ELSE "none")

\* the warning of the resolution of script s
Warning(s, text, pom, javas, trees) ==
    ResolverWarning(s, RelevantFiles(s, text, pom, javas, trees),
                    CandidateFiles(text, get_subdir_files(pom, javas)))

\* the exception the resolver ends with when it raises
ResolveException(s, text, pom, javas, trees) ==
    IF \E f \in Parsed(s, text, pom, javas) :
           DiskFile(f) \in DOMAIN trees /\ trees[DiskFile(f)].kind = "unreadable"
    THEN "FileUnreadable" ELSE "TypeError"

\* whether the resolver raises: some visited file's parse or scan raises
ResolveRaises(s, text, pom, javas, trees) ==
    \E f \in Parsed(s, text, pom, javas) :
        DiskFile(f) \in DOMAIN trees /\ ResolveRaisesOn(s, trees[DiskFile(f)], text)

\* ------------------------------------------------------------ ContextTrimmer

MAX_KNOWLEDGE_LINES == 100
\* \n#{1,6}\s+: the most '#' characters of a heading separator
MAX_HASHES == 6
HASH == "#"
KNOWLEDGE_NOTE ==
    <<NL, "[Note:", " ", "Knowledge", " ", "repo", " ", "trimmed", " ", "to",
      " ", "most", " ", "relevant", " ", "blocks.]">>
NO_KNOWLEDGE == <<"No", " ", "relevant", " ", "knowledge", " ", "found.">>
POM_KEYWORD == <<"pom.xml">>

\* s[k:k+len(pat)] == pat, 1-based
MatchAt(s, k, pat) ==
    /\ k >= 1
    /\ k + Len(pat) - 1 <= Len(s)
    /\ \A j \in 1..Len(pat) : s[k + j - 1] = pat[j]

\* re.findall(r"package (\S+) does not exist", s)
PackageKeywords(s) ==
    {SubSeq(s, k + 2, RunEnd(s, k + 2)) : k \in
        {k \in 1..Len(s) :
            /\ MatchAt(s, k, <<"package", " ">>)
            /\ k + 2 <= Len(s) /\ ~IsSpace(s[k + 2])
            /\ MatchAt(s, RunEnd(s, k + 2) + 1,
                       <<" ", "does", " ", "not", " ", "exist">>)}}

CANNOT_FIND_SYMBOL == <<"cannot", " ", "find", " ", "symbol">>
SYMBOL_COLON == <<"symbol", ":">>

RECURSIVE SymbolKeywordsFrom(_, _)
\* re.findall(r"cannot find symbol.*?symbol:.*?(\S+)", s, re.DOTALL) from
\* position k on: behind the leftmost "cannot find symbol" the nearest
\* "symbol:", and behind that the nearest run of non-space characters
SymbolKeywordsFrom(s, k) ==
    LET heads == {p \in k..Len(s) : MatchAt(s, p, CANNOT_FIND_SYMBOL)}
    IN  IF heads = {} THEN {}
        ELSE LET p     == Min(heads)
                 marks == {q \in (p + Len(CANNOT_FIND_SYMBOL))..Len(s) :
                              MatchAt(s, q, SYMBOL_COLON)}
             IN  IF marks = {} THEN {}
                 ELSE LET q    == Min(marks)
                          word == {r \in (q + Len(SYMBOL_COLON))..Len(s) :
                                      ~IsSpace(s[r])}
                      IN  IF word = {} THEN {}
                          ELSE LET r == Min(word)
                               IN  {SubSeq(s, r, RunEnd(s, r))}
                                   \cup SymbolKeywordsFrom(s, RunEnd(s, r) + 1)

\* the positions of ".java" in the run that starts at k, behind its first
\* token
JavaExts(s, k) == {j \in (k + 1)..RunEnd(s, k) : s[j] = JAVA_EXT}

\* re.findall(r"(\S+\.java)", s): of every run of non-space characters the
\* part up to its last ".java"
JavaKeywords(s) ==
    {SubSeq(s, k, Max(JavaExts(s, k))) : k \in
        {k \in 1..Len(s) :
            /\ ~IsSpace(s[k])
            /\ (k = 1 \/ IsSpace(s[k - 1]))
            /\ JavaExts(s, k) # {}}}

extract_error_keywords(error) ==
    PackageKeywords(error) \cup SymbolKeywordsFrom(error, 1)
        \cup JavaKeywords(error) \cup {POM_KEYWORD}

\* every string of the model with an upper-case letter (the tokens of the
\* logs, error texts, notes, documents and syntax trees, and the names of
\* states and exceptions), each with what str.lower() makes of it
LowerTable ==
    <<
      <<"Foo", "foo">>, <<"Bar", "bar">>, <<"POM.XML", "pom.xml">>,
      <<"[ERROR]", "[error]">>, <<"[INFO]", "[info]">>, <<"BUILD", "build">>,
      <<"SUCCESS", "success">>, <<"FAILURE", "failure">>,
      <<"Tests", "tests">>, <<"Compiling", "compiling">>,
      <<"[Note:", "[note:">>, <<"Error", "error">>, <<"Showing", "showing">>,
      <<"Knowledge", "knowledge">>, <<"No", "no">>,
      <<"java.util.List", "java.util.list">>, <<"E01", "e01">>,
      <<"E02", "e02">>, <<"E03", "e03">>, <<"E04", "e04">>, <<"E05", "e05">>,
      <<"E06", "e06">>, <<"E07", "e07">>, <<"E08", "e08">>, <<"E09", "e09">>,
      <<"E10", "e10">>, <<"E11", "e11">>, <<"E12", "e12">>,
      <<"CRASHED", "crashed">>, <<"EXHAUSTED", "exhausted">>,
      <<"FileNotFoundError", "filenotfounderror">>,
      <<"FileUnreadable", "fileunreadable">>, <<"LogCapture", "logcapture">>,
      <<"NO_SIGNAL", "no_signal">>, <<"RUNNING", "running">>,
      <<"ToolNotStarted", "toolnotstarted">>, <<"TypeError", "typeerror">>
    >>

\* str.lower() of one token
Lower(t) ==
    IF \E k \in DOMAIN LowerTable : LowerTable[k][1] = t
    THEN LowerTable[CHOOSE k \in DOMAIN LowerTable : LowerTable[k][1] = t][2]
    ELSE t
LowerSeq(s) == [k \in DOMAIN s |-> Lower(s[k])]

\* The tokens of the knowledge documents in the order of their first
\* characters' code points; no token is a prefix of another one, so comparing
\* two strings token by token is comparing them character by character.
CodeOrder ==
    <<NL, " ", HASH, JAVA_EXT, "/", "Foo", "POM.XML", "alpha", "beta", "class",
      "pom.xml", "src/main/java">>
Rank(t) == CHOOSE n \in 1..Len(CodeOrder) : CodeOrder[n] = t

\* a < b for Python strings
StrLess(a, b) ==
    \E k \in 1..(Len(b)) :
        /\ \A j \in 1..(k - 1) : j <= Len(a) /\ a[j] = b[j]
        /\ k > Len(a) \/ Rank(a[k]) < Rank(b[k])

\* the length of the match of \n#{1,6}\s+|\n\n at position k, or 0
SepLen(s, k) ==
    IF k > Len(s) \/ s[k] # NL THEN 0
    ELSE LET h == Min({j \in (k + 1)..(Len(s) + 1) :
                          j > Len(s) \/ s[j] # HASH}) - (k + 1)
             w == Min({j \in (k + 1 + h)..(Len(s) + 1) :
                          j > Len(s) \/ ~IsSpace(s[j])}) - (k + 1 + h)
         IN  IF h >= 1 /\ h <= MAX_HASHES /\ w >= 1 THEN 1 + h + w
             ELSE IF k < Len(s) /\ s[k + 1] = NL THEN 2
             ELSE 0

RECURSIVE SplitBlocksFrom(_, _)
\* re.split(r"\n#{1,6}\s+|\n\n", s) from position k on
SplitBlocksFrom(s, k) ==
    LET seps == {p \in k..Len(s) : SepLen(s, p) > 0}
    IN  IF seps = {} THEN <<SubSeq(s, k, Len(s))>>
        ELSE LET p == Min(seps)
             IN  <<SubSeq(s, k, p - 1)>> \o SplitBlocksFrom(s, p + SepLen(s, p))

\* str.strip()
Strip(s) ==
    LET ink == {k \in 1..Len(s) : ~IsSpace(s[k])}
    IN  IF ink = {} THEN <<>> ELSE SubSeq(s, Min(ink), Max(ink))

\* sep.join(parts)
JoinWith(parts, sep) ==
    Concat([k \in 1..(2 * Len(parts) - 1) |->
               IF k % 2 = 1 THEN parts[(k + 1) \div 2] ELSE sep])

\* the elements of seq at the indices keep, in order
SelectIndices(seq, keep) ==
    [j \in 1..Cardinality(keep) |-> seq[Nth(keep, j)]]

\* line 64: the number of keywords that occur in the block, case-insensitively
Score(block, keywords) ==
    Cardinality({kw \in keywords : ContainsSeq(LowerSeq(block), LowerSeq(kw))})

\* the stripped, non-empty blocks of one document, in order; the locals
\* blocks and parts are bound to their values, each computed once
BlocksOf(content) ==
    CHOOSE r \in
      { SelectIndices(parts, {k \in DOMAIN parts : parts[k] # <<>>}) :
          parts \in { [k \in DOMAIN blocks |-> Strip(blocks[k])] :
                        blocks \in {SplitBlocksFrom(content, 1)} } } : TRUE

\* lines 50-66: relevant_blocks before the sort, as (score, block) pairs in
\* the order of the documents and of the blocks inside a document
RelevantBlocks(files, keywords) ==
    CHOOSE r \in
      { SelectIndices(scored, {k \in DOMAIN scored : scored[k].score > 0}) :
          scored \in { [k \in DOMAIN all |->
                           [score |-> Score(all[k], keywords),
                            block |-> all[k]]] :
                         all \in {Concat([d \in DOMAIN files |->
                                             BlocksOf(files[d])])} } } : TRUE

\* (score, block) tuples: a < b
TupleLess(a, b) ==
    \/ a.score < b.score
    \/ a.score = b.score /\ StrLess(a.block, b.block)

\* relevant_blocks.sort(reverse=True): descending by the tuples; equal tuples
\* keep their order
SortReverse(rb) ==
    LET pos(j) == 1 + Cardinality({k \in DOMAIN rb : TupleLess(rb[j], rb[k])})
                    + Cardinality({k \in 1..(j - 1) : rb[k] = rb[j]})
    IN  [p \in DOMAIN rb |-> rb[CHOOSE j \in DOMAIN rb : pos(j) = p]]

RECURSIVE TrimLoop(_, _, _, _)
\* the loop of lines 73-81 from block k on: trimmed_content and total_lines
TrimLoop(sorted, k, content, total) ==
    IF k > Len(sorted) THEN [content |-> content, total |-> total]
    ELSE LET block_lines == SplitLines(sorted[k].block)
         IN  IF total + Len(block_lines) <= MAX_KNOWLEDGE_LINES
             THEN TrimLoop(sorted, k + 1, Append(content, sorted[k].block),
                           total + Len(block_lines))
             ELSE [content |->
                       Append(content,
                              JoinWith(Slice(block_lines, 0,
                                             MAX_KNOWLEDGE_LINES - total),
                                       <<NL>>)),
                   total |-> total]

\* trim_knowledge_repo: trimmed_content, and the string that is returned
trim_knowledge_repo(files, keywords) ==
    LET loop   == TrimLoop(SortReverse(RelevantBlocks(files, keywords)),
                           1, <<>>, 0)
        result == JoinWith(loop.content, <<NL, NL>>)
        noted  == IF result # <<>> /\ loop.total > MAX_KNOWLEDGE_LINES
                  THEN result \o KNOWLEDGE_NOTE ELSE result
    IN  [content |-> loop.content,
         text    |-> IF noted # <<>> THEN noted ELSE NO_KNOWLEDGE]

\* no excerpt: the scripts without a knowledge repo
NoKnowledge == [content |-> <<>>, text |-> <<>>]

\* ------------------------------------------------------------- environment

\* a file: absent, or present with its content
Absent == [exists |-> FALSE, content |-> <<>>]
File(c) == [exists |-> TRUE, content |-> c]

FOO_REL == <<"src/main/java", "/", "Foo", JAVA_EXT>>
FOO_PATH == <<".", "/">> \o FOO_REL

LineSuccess == <<"[INFO]", " ">> \o BUILD_SUCCESS \o <<NL>>
LineFailure == <<"[INFO]", " ", "BUILD", " ", "FAILURE", NL>>
LineErrFoo(n) == <<MARKER, " ">> \o FOO_REL \o <<":", n, ":", " ", "error", NL>>
LineErrPlain == <<MARKER, " ", "Tests", " ", "failed", NL>>

\* the most error lines one build step prints
MaxStepErrors == 1

RECURSIVE CompileErrors(_)
\* k compiler errors on Foo.java, at line 7 and line 9 in turn
CompileErrors(k) ==
    IF k = 0 THEN <<>>
    ELSE CompileErrors(k - 1) \o LineErrFoo(IF k % 2 = 1 THEN "7" ELSE "9")

RECURSIVE TestErrors(_)
\* k test failure lines
TestErrors(k) == IF k = 0 THEN <<>> ELSE TestErrors(k - 1) \o LineErrPlain

\* the outputs the compile step and the test step may print: the success line,
\* or error lines followed by the failure line
CompileOutputs ==
    {LineSuccess} \cup {CompileErrors(k) \o LineFailure : k \in 0..MaxStepErrors}
TestOutputs ==
    {LineSuccess} \cup {TestErrors(k) \o LineFailure : k \in 0..MaxStepErrors}

\* What subprocess.run gives: it raises (the executable cannot be started:
\* FileNotFoundError, PermissionError, another OSError), or it returns a
\* return code and the captured output.
Raised == [raised |-> TRUE, returncode |-> 1, stdout |-> <<>>]
Results(outputs) ==
    {Raised} \cup [raised : {FALSE}, returncode : {0, 1}, stdout : outputs]
CompileResults == Results(CompileOutputs)
TestResults == Results(TestOutputs)
AgentResults == Results({<<>>})

TreeOk ==
    [kind |-> "ok", imports |-> <<>>, classes |-> << <<"Foo">> >>,
     invocations |-> <<>>]
TreeChained ==
    [kind |-> "ok", imports |-> <<>>, classes |-> << <<"Foo">> >>,
     invocations |-> << [member |-> <<"items">>, qualifier |-> Some(<<"repo">>)],
                        [member |-> <<"stream">>, qualifier |-> NoQualifier] >>]
TreeSyntaxError ==
    [kind |-> "syntax_error", imports |-> <<>>, classes |-> <<>>,
     invocations |-> <<>>]
TreeUnreadable ==
    [kind |-> "unreadable", imports |-> <<>>, classes |-> <<>>,
     invocations |-> <<>>]
Trees == {TreeOk, TreeChained, TreeSyntaxError, TreeUnreadable}

LineErrFooAt(digits) ==
    <<MARKER, " ">> \o FOO_REL \o <<":">> \o digits \o <<":", " ", "error", NL>>
LineInfo == <<"[INFO]", " ", "Compiling", NL>>

\* the lines of the logs the extractor is applied to
ExtractLinePool ==
    {LineErrFoo("7"), LineErrFooAt(<<"9", "7">>), LineErrPlain, LineInfo}

\* the most lines of such a log
MaxLogLines == 3

\* the messages of distinct errors
ErrorNames ==
    <<"E01", "E02", "E03", "E04", "E05", "E06", "E07", "E08", "E09", "E10",
      "E11", "E12">>
\* the most distinct errors of one log
MaxUniqueErrors == 10

RECURSIVE DistinctErrors(_)
\* k error lines with k different messages
DistinctErrors(k) ==
    IF k = 0 THEN <<>>
    ELSE DistinctErrors(k - 1) \o <<MARKER, " ", ErrorNames[k], NL>>

RECURSIVE InfoLines(_)
InfoLines(n) == IF n = 0 THEN <<>> ELSE InfoLines(n - 1) \o LineInfo

\* a log without its final newline
Chop(log) ==
    IF log # <<>> /\ log[Len(log)] = NL THEN SubSeq(log, 1, Len(log) - 1)
    ELSE log

\* The logs the extractor is applied to: the short ones, with and without a
\* final newline, and logs of many distinct errors, alone and followed by
\* more than MAX_ERROR_LINES lines without an error.
ExtractLogs ==
    LET short == {Concat(ls) : ls \in UNION {[1..m -> ExtractLinePool] :
                                                m \in 0..MaxLogLines}}
    IN  short \cup {Chop(l) : l \in short}
        \cup {DistinctErrors(k) \o InfoLines(n) :
                 k \in 0..MaxUniqueErrors, n \in {0, MAX_ERROR_LINES}}

\* a source file that declares an interface: no ClassDeclaration node
TreeInterface ==
    [kind |-> "ok", imports |-> << <<"java.util.List">> >>, classes |-> <<>>,
     invocations |-> << [member |-> <<"items">>, qualifier |-> Some(<<"repo">>)] >>]
\* an interface whose default method holds the chained call
TreeInterfaceChained ==
    [kind |-> "ok", imports |-> <<>>, classes |-> <<>>,
     invocations |-> TreeChained.invocations]
ResolveTrees == Trees \cup {TreeInterface, TreeInterfaceChained}

\* error lines that name Foo.java as ./src/main/java/Foo.java, by an absolute
\* path, and a file Bar.java that does not exist
LineErrDotFoo ==
    <<MARKER, " ">> \o FOO_PATH \o <<":", "7", ":", " ", "error", NL>>
LineErrAbsFoo ==
    <<MARKER, " ", "/", "home", "/">> \o FOO_REL
        \o <<":", "9", ":", " ", "error", NL>>
LineErrBar ==
    <<MARKER, " ", FOO_REL[1], "/", "Bar", JAVA_EXT, ":", "7", ":", " ",
      "error", NL>>
ResolveLinePool ==
    {LineErrFoo("7"), LineErrDotFoo, LineErrAbsFoo, LineErrBar, LineErrPlain}

\* the logs whose error text the resolver is applied to: one or two error
\* lines and the failure line
ResolveLogs ==
    {a \o b \o LineFailure : a \in ResolveLinePool \cup {<<>>},
                             b \in ResolveLinePool}

\* error lines that name a missing package and a missing symbol
LineErrPackage ==
    <<MARKER, " ", "package", " ", "beta", " ", "does", " ", "not", " ",
      "exist", NL>>
LineErrSymbol ==
    <<MARKER, " ">> \o CANNOT_FIND_SYMBOL
        \o <<NL, MARKER, " ", " ">> \o SYMBOL_COLON
        \o <<" ", " ", "class", " ", "Foo", NL>>
TrimLinePool == {LineErrFoo("7"), LineErrPackage, LineErrSymbol}

\* the logs whose error text the keywords are taken from
TrimLogs ==
    {a \o b \o LineFailure : a \in {<<>>, LineErrFoo("7")}, b \in TrimLinePool}

\* no request was sent yet
NoRequest == [sent |-> FALSE, files |-> {}, knowledge |-> NoKnowledge]

\* the blocks of the knowledge documents
BlockAlpha == <<"alpha", " ", "pom.xml">>
BlockBeta == <<"beta", " ", "pom.xml">>
BlockUpper == <<"POM.XML", NL, FOO_REL[1], "/", "Foo", JAVA_EXT>>
BlockOther == <<"alpha", " ", "class">>
KnowledgeBlocks == {BlockAlpha, BlockBeta, BlockUpper, BlockOther}

\* how two blocks of a document are separated: a blank line, or a heading
Separators == {<<NL, NL>>, <<NL, HASH, HASH, " ">>}

\* the most blocks of one knowledge document
MaxDocBlocks == 2

\* the documents: up to MaxDocBlocks blocks with one kind of separator
Docs ==
    {JoinWith(bs, sep) : bs \in UNION {[1..m -> KnowledgeBlocks] :
                                          m \in 1..MaxDocBlocks},
                         sep \in Separators}

\* a block of n lines, each of them the keyword every error text has
LongBlock(n) == JoinWith([k \in 1..n |-> POM_KEYWORD], <<NL>>)

\* documents of one block that is just below, at and just above the line
\* budget of the excerpt
LongDocs ==
    {LongBlock(n) : n \in (MAX_KNOWLEDGE_LINES - 1)..(MAX_KNOWLEDGE_LINES + 1)}

\* the knowledge repos: no document, one, or one followed by a document of
\* one block
KnowledgeLists ==
    {<<>>} \cup {<<d>> : d \in Docs \cup LongDocs}
        \cup {<<d, e>> : d \in Docs, e \in KnowledgeBlocks}
        \cup {<<d, e>> : d \in LongDocs, e \in {BlockAlpha, BlockUpper}}

\* the file names of the documents of knowledge_repo
DocNames == <<"doc00.md", "doc01.md">>

\* glob.glob on a directory of n documents: their names in an order that
\* the file system chooses
GlobOrders(n) ==
    {names \in [1..n -> {DocNames[k] : k \in 1..n}] :
        \A j, k \in 1..n : j # k => names[j] # names[k]}

\* the knowledge repo of the runs of the whole loop: one document
DocSetup == JoinWith(<<BlockUpper, BlockAlpha>>, <<NL, NL>>)

\* an error_log.txt left by an earlier run of the script
StaleErrorLog == File(LineErrPlain)

\* --------------------------------------------------------------- main loop

\* line 183 of fixcompile.py: `if compile_success and test_success`
BothSucceeded(c, t) == c /\ t

\* line 55 of fixcompile.py and line 92 of testfix.py
CompileSucceeded(s, r) ==
    IF UsesAiderBuild(s)
    THEN r.returncode = 0 /\ ContainsSeq(r.stdout, BUILD_SUCCESS)
    ELSE r.returncode = 0

\* `for i in range(1, MAX_ITERATIONS + 1)`: whether another iteration follows
HasNextIteration(n) == n < MAX_ITERATIONS

Init ==
    /\ script \in Scripts
    /\ pom_exists \in BOOLEAN
    /\ java_files \in {{}, {FOO_PATH}}
    /\ ast \in [java_files -> IF script = "readrepotofix" THEN {TreeOk} ELSE Trees]
    /\ i = 1
    /\ pc = "LogCapture"
    /\ state = "RUNNING"
    /\ compile_success = FALSE
    /\ test_success = FALSE
    /\ compile_out = <<>>
    /\ test_out = <<>>
    /\ test_ran = FALSE
    /\ log_file = Absent
    /\ error_log \in {Absent, StaleErrorLog}
    /\ error_lines = <<>>
    /\ error_text = None
    /\ files_to_fix = {}
    /\ warned = "none"
    /\ knowledge_files \in (IF script = "readrepotofix"
                            THEN {<<>>, <<DocSetup>>} ELSE {<<>>})
    /\ knowledge_names \in GlobOrders(Len(knowledge_files))
    /\ fix_request = NoRequest
    /\ fix_result = "none"
    /\ exit_code = -1
    /\ raised = "none"
    /\ printed = {}
    /\ n_builds = 0
    /\ n_extract = 0
    /\ n_fix = 0
    /\ n_agent = 0

\* LogContent with the test step's write replacing the compile step's output
LogContentTestOnly(c_out, ran, t_out) == IF ran THEN t_out ELSE c_out

\* What build_log.txt holds when LogCapture returns: the compile step's output,
\* followed by the test step's when that step ran (lines 66-69 of
\* fixcompile.py; the "w" and "a" opens of testfix.py).
LogContent(c_out, ran, t_out) == IF ran THEN c_out \o t_out ELSE c_out

\* an exception nobody catches ends the process with a traceback and status 1
Crash(exception) ==
    /\ state' = "CRASHED"
    /\ pc' = "exit"
    /\ exit_code' = 1
    /\ raised' = exception

env == <<script, pom_exists, java_files, ast, knowledge_files,
        knowledge_names>>

\* the call returned: main goes on at next_pc
Returned(next_pc) ==
    /\ pc' = next_pc
    /\ UNCHANGED <<state, exit_code, raised>>

\* run_maven_via_aider of fixcompile.py and readrepotofix.py (line 181).  The
\* log is written by Python after both steps; when the second subprocess.run
\* raises, build_log.txt holds whatever the agent's `/run mvn ... > build_log.txt`
\* left there.
run_maven_via_aider ==
    /\ pc = "LogCapture"
    /\ UsesAiderBuild(script)
    /\ n_builds' = n_builds + 1
    /\ \E c \in CompileResults :
         IF c.raised
         THEN /\ Crash("ToolNotStarted")
              /\ UNCHANGED <<compile_success, test_success, compile_out,
                             test_out, test_ran, log_file>>
         ELSE /\ compile_out' = c.stdout
              /\ compile_success' = CompileSucceeded(script, c)
              /\ IF CompileSucceeded(script, c)
                 THEN \E t \in TestResults :
                        IF t.raised
                        THEN /\ Crash("ToolNotStarted")
                             /\ log_file' \in {log_file} \cup {File(o) : o \in CompileOutputs}
                             /\ UNCHANGED <<test_success, test_out, test_ran>>
                        ELSE /\ Returned("check")
                             /\ test_ran' = TRUE
                             /\ test_out' = t.stdout
                             /\ test_success' = CompileSucceeded(script, t)
                             /\ log_file' = File(LogContent(c.stdout, TRUE, t.stdout))
                 ELSE /\ Returned("check")
                      /\ test_ran' = FALSE
                      /\ test_out' = <<>>
                      /\ test_success' = FALSE
                      /\ log_file' = File(LogContent(c.stdout, FALSE, <<>>))
    /\ UNCHANGED <<env, i, error_log, error_lines, error_text, files_to_fix,
                   warned, fix_request, fix_result,
                   printed, n_extract, n_fix, n_agent>>

\* run_maven_build_and_test of testfix.py (line 157).  open(LOG_FILE, "w")
\* empties the log before mvn is started, and mvn writes into it.
run_maven_build_and_test ==
    /\ pc = "LogCapture"
    /\ ~UsesAiderBuild(script)
    /\ n_builds' = n_builds + 1
    /\ \E c \in CompileResults :
         IF c.raised
         THEN /\ Crash("ToolNotStarted")
              /\ log_file' = File(<<>>)
              /\ UNCHANGED <<compile_success, test_success, compile_out,
                             test_out, test_ran>>
         ELSE /\ compile_out' = c.stdout
              /\ compile_success' = CompileSucceeded(script, c)
              /\ IF CompileSucceeded(script, c)
                 THEN \E t \in TestResults :
                        IF t.raised
                        THEN /\ Crash("ToolNotStarted")
                             /\ log_file' = File(c.stdout)
                             /\ UNCHANGED <<test_success, test_out, test_ran>>
                        ELSE /\ Returned("check")
                             /\ test_ran' = TRUE
                             /\ test_out' = t.stdout
                             /\ test_success' = CompileSucceeded(script, t)
                             /\ log_file' = File(LogContent(c.stdout, TRUE, t.stdout))
                 ELSE /\ Returned("check")
                      /\ test_ran' = FALSE
                      /\ test_out' = <<>>
                      /\ test_success' = FALSE
                      /\ log_file' = File(LogContent(c.stdout, FALSE, <<>>))
    /\ UNCHANGED <<env, i, error_log, error_lines, error_text, files_to_fix,
                   warned, fix_request, fix_result,
                   printed, n_extract, n_fix, n_agent>>

\* AfterLoop with sys.exit(0) in place of sys.exit(1)
AfterLoopExitZero(reports) ==
    /\ printed' = printed \cup reports \cup {"max_iterations", "check_logs"}
    /\ exit_code' = 0
    /\ pc' = "exit"
    /\ raised' = raised

\* The reports and the exit after the loop (lines 205-207).  `break` leaves the
\* for loop and falls through to them as well.
AfterLoop(reports) ==
    /\ printed' = printed \cup reports \cup {"max_iterations", "check_logs"}
    /\ exit_code' = 1
    /\ pc' = "exit"
    /\ raised' = raised

\* Succeed without sys.exit(0): control falls through to the extractor, which
\* finds no log and returns None
SucceedWithoutExit ==
    /\ pc = "check"
    /\ BothSucceeded(compile_success, test_success)
    /\ AfterLoop({"succeeded", "no_errors_found"})
    /\ state' = "NO_SIGNAL"
    /\ log_file' = Absent
    /\ error_log' = Absent
    /\ UNCHANGED <<env, i, compile_success, test_success, compile_out, test_out,
                   test_ran, error_lines, error_text, files_to_fix, warned,
                   fix_request, fix_result,
                   n_builds, n_extract, n_fix, n_agent>>

\* Succeed without the removal of error_log.txt
SucceedKeepsErrorLog ==
    /\ pc = "check"
    /\ BothSucceeded(compile_success, test_success)
    /\ state' = "SUCCESS"
    /\ exit_code' = 0
    /\ pc' = "exit"
    /\ printed' = printed \cup {"succeeded"}
    /\ log_file' = Absent
    /\ UNCHANGED <<env, i, compile_success, test_success, compile_out, test_out,
                   test_ran, error_log, error_lines, error_text, files_to_fix,
                   warned, fix_request, fix_result,
                   raised, n_builds, n_extract, n_fix, n_agent>>

\* lines 183-187: both steps succeeded; the artifacts are removed, exit 0
Succeed ==
    /\ pc = "check"
    /\ BothSucceeded(compile_success, test_success)
    /\ IF log_file.exists
       THEN /\ state' = "SUCCESS"
            /\ exit_code' = 0
            /\ raised' = raised
            /\ error_log' = Absent
       ELSE \* os.remove(LOG_FILE) raises FileNotFoundError
            /\ state' = "CRASHED"
            /\ exit_code' = 1
            /\ raised' = "FileNotFoundError"
            /\ error_log' = error_log
    /\ pc' = "exit"
    /\ printed' = printed \cup {"succeeded"}
    /\ log_file' = Absent
    /\ UNCHANGED <<env, i, compile_success, test_success, compile_out, test_out,
                   test_ran, error_lines, error_text, files_to_fix, warned,
                   fix_request, fix_result,
                   n_builds, n_extract, n_fix, n_agent>>

\* lines 189-192: the extractor runs; without error text the loop is left
ErrorExtractor ==
    /\ pc = "check"
    /\ ~BothSucceeded(compile_success, test_success)
    /\ n_extract' = n_extract + 1
    /\ LET r == IF log_file.exists
                THEN Extract(script, log_file.content)
                ELSE [written |-> error_log.content, blocks |-> <<>>,
                      text |-> None]
       IN  /\ error_log' = IF log_file.exists THEN File(r.written) ELSE error_log
           /\ error_lines' = r.blocks
           /\ error_text' = r.text
           /\ IF NoErrorsFound(r.text)
              THEN /\ AfterLoop({"no_errors_found"})
                   /\ state' = "NO_SIGNAL"
              ELSE /\ pc' = IF script = "readrepotofix" THEN "fix" ELSE "resolve"
                   /\ UNCHANGED <<state, exit_code, raised, printed>>
    /\ UNCHANGED <<env, i, compile_success, test_success, compile_out, test_out,
                   test_ran, log_file, files_to_fix, warned, fix_request,
                   fix_result, n_builds, n_fix, n_agent>>

\* line 195 of fixcompile.py, line 171 of testfix.py
RelevanceResolver ==
    /\ pc = "resolve"
    /\ IF ResolveRaises(script, error_text.s, pom_exists, java_files, ast)
       THEN /\ Crash(ResolveException(script, error_text.s, pom_exists,
                                      java_files, ast))
            /\ UNCHANGED <<files_to_fix, warned>>
       ELSE /\ Returned("fix")
            /\ files_to_fix' =
                  RelevantFiles(script, error_text.s, pom_exists, java_files, ast)
            /\ warned' =
                  Warning(script, error_text.s, pom_exists, java_files, ast)
    /\ UNCHANGED <<env, i, compile_success, test_success, compile_out, test_out,
                   test_ran, log_file, error_log, error_lines, error_text,
                   fix_request, fix_result,
                   printed, n_builds, n_extract, n_fix, n_agent>>

\* the file list run_aider_fix works on: the caller's in fixcompile.py and
\* testfix.py, its own resolution in readrepotofix.py (line 180)
FixFiles ==
    IF script = "readrepotofix"
    THEN RelevantFiles(script, error_text.s, pom_exists, java_files, ast)
    ELSE files_to_fix

\* the warning printed so far by the resolution of this iteration: the
\* resolution of readrepotofix.py is the first statement of run_aider_fix
FixWarning ==
    IF script = "readrepotofix"
    THEN Warning(script, error_text.s, pom_exists, java_files, ast)
    ELSE warned

\* the path of the d-th document of knowledge_files
KnowledgePath(d) == <<".", "/", "knowledge_repo", "/", knowledge_names[d]>>

\* the knowledge documents as file arguments: knowledge_files in
\* readrepotofix.py (line 188), none in the other scripts
KnowledgePaths ==
    IF script = "readrepotofix"
    THEN {KnowledgePath(d) : d \in DOMAIN knowledge_files}
    ELSE {}

\* the request run_aider_fix builds for the agent (cmd, lines 163 and 185-198
\* of readrepotofix.py): the file arguments, which in readrepotofix.py are
\* all_files = files_to_fix + knowledge_files, and the knowledge excerpt of
\* the message
FixRequest ==
    [sent      |-> TRUE,
     files     |-> FixFiles \cup KnowledgePaths,
     knowledge |-> IF script = "readrepotofix"
                   THEN trim_knowledge_repo(knowledge_files,
                                            extract_error_keywords(error_text.s))
                   ELSE NoKnowledge]

\* Advance with the next iteration starting at the success test, on the
\* build of the finished one
AdvanceSkipsBuild(result) ==
    IF HasNextIteration(i)
    THEN /\ i' = i + 1
         /\ pc' = "check"
         /\ compile_success' = FALSE
         /\ test_success' = FALSE
         /\ compile_out' = <<>>
         /\ test_out' = <<>>
         /\ test_ran' = FALSE
         /\ error_lines' = <<>>
         /\ error_text' = None
         /\ files_to_fix' = {}
         /\ fix_result' = "none"
         /\ UNCHANGED <<state, exit_code, raised, printed>>
    ELSE /\ i' = i
         /\ AfterLoop({})
         /\ state' = "EXHAUSTED"
         /\ files_to_fix' = FixFiles
         /\ fix_result' = result
         /\ UNCHANGED <<compile_success, test_success, compile_out, test_out,
                        test_ran, error_lines, error_text>>

\* The end of an iteration: the next one, or the end of the loop.  The locals
\* of a finished iteration are dead (each is assigned again before it is
\* read), so the next iteration starts from their initial values.
Advance(result) ==
    IF HasNextIteration(i)
    THEN /\ i' = i + 1
         /\ pc' = "LogCapture"
         /\ compile_success' = FALSE
         /\ test_success' = FALSE
         /\ compile_out' = <<>>
         /\ test_out' = <<>>
         /\ test_ran' = FALSE
         /\ error_lines' = <<>>
         /\ error_text' = None
         /\ files_to_fix' = {}
         /\ fix_result' = "none"
         /\ UNCHANGED <<state, exit_code, raised, printed>>
    ELSE /\ i' = i
         /\ AfterLoop({})
         /\ state' = "EXHAUSTED"
         /\ files_to_fix' = FixFiles
         /\ fix_result' = result
         /\ UNCHANGED <<compile_success, test_success, compile_out, test_out,
                        test_ran, error_lines, error_text>>

\* FixDelegate without the refusal: the agent is invoked with any file list
FixDelegateAlwaysInvokes ==
    /\ pc = "fix"
    /\ n_fix' = n_fix + 1
    /\ warned' = FixWarning
    /\ n_agent' = n_agent + 1
    /\ fix_request' = FixRequest
    /\ \E a \in AgentResults :
         IF a.raised
         THEN /\ Crash("ToolNotStarted")
              /\ files_to_fix' = FixFiles
              /\ UNCHANGED <<i, printed, fix_result, compile_success,
                             test_success, compile_out, test_out,
                             test_ran, error_lines, error_text>>
         ELSE Advance(IF a.returncode = 0 THEN "ok" ELSE "nonzero")
    /\ UNCHANGED <<env, log_file, error_log, n_builds, n_extract>>

\* lines 199-203: run_aider_fix, then the loop goes on whatever it returned
FixDelegate ==
    /\ pc = "fix"
    /\ n_fix' = n_fix + 1
    /\ warned' = FixWarning
    /\ IF FixFiles = {}
       THEN /\ n_agent' = n_agent
            /\ fix_request' = fix_request
            /\ Advance("refused")
       ELSE /\ n_agent' = n_agent + 1
            /\ fix_request' = FixRequest
            /\ \E a \in AgentResults :
                 IF a.raised
                 THEN /\ Crash("ToolNotStarted")
                      /\ files_to_fix' = FixFiles
                      /\ UNCHANGED <<i, printed, fix_result, compile_success,
                                     test_success, compile_out, test_out,
                                     test_ran, error_lines, error_text>>
                 ELSE Advance(IF a.returncode = 0 THEN "ok" ELSE "nonzero")
    /\ UNCHANGED <<env, log_file, error_log, n_builds, n_extract>>

Next ==
    \/ run_maven_via_aider
    \/ run_maven_build_and_test
    \/ Succeed
    \/ ErrorExtractor
    \/ RelevanceResolver
    \/ FixDelegate

Spec == Init /\ [][Next]_vars

\* main is one sequential process: a step that can be taken is taken
FairSpec == Spec /\ WF_vars(Next)

\* ----------------------------------------------- the components on their own

\* the state of main when run_maven_* of iteration 1 returned a failed build
\* with the given log
AfterFailedBuild(log) ==
    /\ i = 1
    /\ state = "RUNNING"
    /\ compile_success = FALSE
    /\ test_success = FALSE
    /\ compile_out = log
    /\ test_out = <<>>
    /\ test_ran = FALSE
    /\ log_file = File(log)
    /\ files_to_fix = {}
    /\ warned = "none"
    /\ fix_request = NoRequest
    /\ fix_result = "none"
    /\ exit_code = -1
    /\ raised = "none"
    /\ printed = {}
    /\ n_builds = 1
    /\ n_fix = 0
    /\ n_agent = 0

\* ErrorExtractor applied to the logs of ExtractLogs
ExtractInit ==
    /\ script \in Scripts
    /\ pom_exists = TRUE
    /\ java_files = {}
    /\ ast = <<>>
    /\ knowledge_files = <<>>
    /\ knowledge_names = <<>>
    /\ \E log \in ExtractLogs : AfterFailedBuild(log)
    /\ pc = "check"
    /\ error_log = Absent
    /\ error_lines = <<>>
    /\ error_text = None
    /\ n_extract = 0

ExtractNext == ErrorExtractor

ExtractSpec == ExtractInit /\ [][ExtractNext]_vars

\* the state of main when the extractor of iteration 1 returned a batch
AfterExtraction(log) ==
    /\ AfterFailedBuild(log)
    /\ error_log = File(Extract(script, log).written)
    /\ error_lines = Extract(script, log).blocks
    /\ error_text = Extract(script, log).text
    /\ n_extract = 1
    /\ pc = IF script = "readrepotofix" THEN "fix" ELSE "resolve"

\* RelevanceResolver and FixDelegate applied to the error texts of ResolveLogs
ResolveInit ==
    /\ script \in Scripts
    /\ pom_exists \in BOOLEAN
    /\ java_files \in {{}, {FOO_PATH}}
    /\ ast \in [java_files -> IF script = "readrepotofix" THEN {TreeOk}
                               ELSE ResolveTrees]
    /\ knowledge_files \in (IF script = "readrepotofix"
                            THEN {<<>>, <<DocSetup>>} ELSE {<<>>})
    /\ knowledge_names \in GlobOrders(Len(knowledge_files))
    /\ \E log \in ResolveLogs : AfterExtraction(log)

ResolveNext == RelevanceResolver \/ FixDelegate

ResolveSpec == ResolveInit /\ [][ResolveNext]_vars

\* run_aider_fix of readrepotofix.py applied to the error texts of TrimLogs and
\* the knowledge repos of KnowledgeLists
TrimInit ==
    /\ script = "readrepotofix"
    /\ pom_exists \in BOOLEAN
    /\ java_files = {FOO_PATH}
    /\ ast = [f \in java_files |-> TreeOk]
    /\ knowledge_files \in KnowledgeLists
    /\ knowledge_names \in GlobOrders(Len(knowledge_files))
    /\ \E log \in TrimLogs : AfterExtraction(log)

TrimNext == FixDelegate

TrimSpec == TrimInit /\ [][TrimNext]_vars

\* ------------------------------------------------------------------ claims

Terminal == {"SUCCESS", "NO_SIGNAL", "EXHAUSTED"}

C1_Step ==
    (pc = "check" /\ compile_success /\ test_success)
        => /\ state' = "SUCCESS"
           /\ pc' = "exit"
           /\ i' = i
           /\ n_builds' = n_builds
           /\ n_extract' = n_extract
           /\ n_fix' = n_fix

\* C1: when LogCapture of iteration k reports compileSucceeded and
\* testSucceeded both true, the next step enters SUCCESS in that iteration,
\* with no ErrorExtractor run, no FixDelegate call and no further build; the
\* run then stops for good.  SUCCESS is entered only that way: in SUCCESS both
\* outcomes are true, k builds were run, and each of the k - 1 earlier
\* iterations ran the extractor and FixDelegate once.
C1_SuccessOnFirstGreenIteration ==
    /\ [](state = "SUCCESS" =>
            /\ compile_success /\ test_success
            /\ n_builds = i /\ n_extract = i - 1 /\ n_fix = i - 1)
    /\ [][C1_Step /\ (state = "SUCCESS" => FALSE)]_vars

C1_Witness ==
    state = "SUCCESS" /\ i = 3 /\ n_builds = 3 /\ n_fix = 2

\* C2: a run in which every external call returned ends in SUCCESS, NO_SIGNAL
\* or EXHAUSTED, and no run performs more than MAX_ITERATIONS builds.
C2_ReachesTerminalState ==
    /\ n_builds <= MAX_ITERATIONS
    /\ (pc = "exit" /\ raised \notin {"ToolNotStarted", "FileUnreadable"})
           => state \in Terminal

C3_Step ==
    (/\ pc = "check"
     /\ ~(compile_success /\ test_success)
     /\ log_file.exists
     /\ ~Contains(log_file.content, MARKER))
        => /\ error_text'.none
           /\ state' = "NO_SIGNAL"
           /\ pc' = "exit"
           /\ i' = i
           /\ n_fix' = n_fix
           /\ n_builds' = n_builds

\* C3: when the build or the tests of iteration i failed and the log holds no
\* [ERROR] marker, the extractor returns None and the loop enters NO_SIGNAL in
\* that iteration, without a FixDelegate call; nothing follows NO_SIGNAL.
C3_NoMarkerMeansNoSignal ==
    [][C3_Step /\ (state = "NO_SIGNAL" => FALSE)]_vars

C3_Witness ==
    /\ state = "NO_SIGNAL" /\ i = 2 /\ n_fix = 1
    /\ test_ran /\ ~test_success
    /\ ~Contains(log_file.content, MARKER)

\* C4: a run whose MAX_ITERATIONS iterations all failed, each with a non-empty
\* error batch, has run MAX_ITERATIONS builds and MAX_ITERATIONS FixDelegate
\* calls and ended in EXHAUSTED with exit status 1.
C4_ExhaustedAfterNthFix ==
    (/\ pc = "exit"
     /\ i = MAX_ITERATIONS
     /\ n_extract = MAX_ITERATIONS
     /\ ~NoErrorsFound(error_text))
        => /\ state = "EXHAUSTED"
           /\ n_builds = MAX_ITERATIONS
           /\ n_fix = MAX_ITERATIONS
           /\ exit_code = 1

\* C5: whenever FixDelegate is reached in an iteration i < MAX_ITERATIONS, the
\* next step starts LogCapture of iteration i + 1.
C5_FixNeverFatal ==
    [][(pc = "fix" /\ i < MAX_ITERATIONS)
          => (pc' = "LogCapture" /\ i' = i + 1 /\ state' = "RUNNING")]_vars

\* C6: no run ends in a crash because an external tool could not be started.
C6_TransportFailureRecovered ==
    ~(state = "CRASHED" /\ raised = "ToolNotStarted")

\* C7: a run that ends in NO_SIGNAL does not report that the maximum number of
\* iterations was reached.
C7_NoSignalReportsOnlyNoSignal ==
    state = "NO_SIGNAL" =>
        ("no_errors_found" \in printed /\ "max_iterations" \notin printed)

\* C8: the exit status is 0 exactly in SUCCESS; NO_SIGNAL and EXHAUSTED exit
\* with status 1.
C8_ExitStatus ==
    /\ (exit_code = 0) <=> (state = "SUCCESS")
    /\ state \in {"NO_SIGNAL", "EXHAUSTED"} => exit_code = 1

C8_Witness ==
    state = "NO_SIGNAL" /\ pc = "exit" /\ exit_code = 1 /\ i = 1

\* C9: in SUCCESS neither build_log.txt nor error_log.txt exists; in NO_SIGNAL
\* and EXHAUSTED build_log.txt exists and holds the last build's output.
C9_ArtifactLifecycle ==
    /\ state = "SUCCESS" => (~log_file.exists /\ ~error_log.exists)
    /\ state \in {"NO_SIGNAL", "EXHAUSTED"} =>
           (log_file.exists /\ log_file.content = compile_out \o test_out)

C9_Witness ==
    state = "SUCCESS" /\ n_extract >= 1 /\ ~error_log.exists

\* C10: when LogCapture has returned, the test step ran exactly if the compile
\* step succeeded; after a failed compile step testSucceeded is false and the
\* log holds the compile output only; when both steps ran the log holds the
\* compile output followed by the test output.
C10_ShortCircuit ==
    pc = "check" =>
        /\ test_ran <=> compile_success
        /\ ~compile_success =>
               (~test_success /\ log_file = File(compile_out))
        /\ test_ran => log_file = File(compile_out \o test_out)

C10_Witness ==
    /\ pc = "check" /\ test_ran /\ ~test_success
    /\ compile_out # <<>> /\ test_out # <<>>
    /\ log_file = File(compile_out \o test_out)

\* the extractor has run on log_file
Extracted == pc # "check" /\ n_extract = 1

\* the lines of the log
LogLines == ReadLines(log_file.content)

\* the (1-based) lines of the log that hold the marker and whose signature no
\* earlier marker line has: the first occurrences of the log's unique errors
FirstSeen(lines) ==
    {n \in 1..Len(lines) :
        /\ HasMarker(lines[n])
        /\ \A m \in 1..(n - 1) :
              HasMarker(lines[m]) =>
                  error_signature(lines[m]) # error_signature(lines[n])}

\* the context window of line n: the line and the WINDOW - 1 lines behind it
WindowText(lines, n) == Concat(Slice(lines, n - 1, n - 1 + WINDOW))

\* a text as the sequence of its lines' characters, line ends aside
NoNL(text) == SelectSeq(text, LAMBDA t : t # NL)

\* C11: the batch holds, in log order, one report for each unique signature of
\* the log (as many as the budget admits), and the lines of the j-th report
\* are the context window of the first occurrence of the j-th signature.
C11_Deduplication ==
    Extracted =>
        LET first == FirstSeen(LogLines)
        IN  /\ Len(error_lines) <= Cardinality(first)
            /\ \/ Len(error_lines) = Cardinality(first)
               \/ BudgetReached(Len(error_lines))
            /\ \A j \in 1..Len(error_lines) :
                  NoNL(error_lines[j]) =
                      NoNL(WindowText(LogLines, Nth(first, j)))

\* C12: the reports of the batch, WINDOW lines each, fit into MAX_ERROR_LINES.
C12_BudgetRespected ==
    Extracted => Len(error_lines) * WINDOW <= MAX_ERROR_LINES

\* text ends with the truncation note
HasNote(text) ==
    /\ Len(text) >= Len(TRUNCATION_NOTE)
    /\ SubSeq(text, Len(text) - Len(TRUNCATION_NOTE) + 1, Len(text))
           = TRUNCATION_NOTE

\* C13: the returned error text ends with the truncation note exactly when
\* the log holds more unique errors than the batch holds reports.
C13_TruncationFlag ==
    (Extracted /\ ~error_text.none) =>
        (HasNote(error_text.s)
             <=> Cardinality(FirstSeen(LogLines)) > Len(error_lines))

\* a and b are the same line but for the decimal number between two colons
\* at position k, the line-number token
SameButLineNumberAt(a, b, k) ==
    /\ k <= Len(a) /\ k <= Len(b)
    /\ SubSeq(a, 1, k) = SubSeq(b, 1, k)
    /\ k = 1 \/ a[k - 1] \notin Digits
    /\ ColonNumMatch(a, k) > 0
    /\ ColonNumMatch(b, k) > 0
    /\ SubSeq(a, k + ColonNumMatch(a, k), Len(a))
           = SubSeq(b, k + ColonNumMatch(b, k), Len(b))

SameButLineNumber(a, b) ==
    \E k \in 1..Len(a) : SameButLineNumberAt(a, b, k)

\* C14: two error lines that differ in nothing but the line-number token have
\* the same signature, and the loop keeps the block of at most one of them;
\* the batch is the windows of the lines the loop keeps.
C14_SignatureNormalization ==
    Extracted =>
        LET lines == ScannedLines(script, log_file.content)
            kept  == KeptLines(lines, 0, <<>>, {})
        IN  /\ error_lines =
                  [j \in DOMAIN kept |->
                      Concat(Slice(lines, kept[j], kept[j] + WINDOW))]
            /\ \A m, n \in 1..Len(lines) :
                  (/\ m # n
                   /\ HasMarker(lines[m])
                   /\ SameButLineNumber(lines[m], lines[n]))
                      => /\ error_signature(lines[m]) = error_signature(lines[n])
                         /\ ~(\E j, k \in DOMAIN kept :
                                 kept[j] = m - 1 /\ kept[k] = n - 1)

C14_Witness ==
    /\ Extracted
    /\ log_file.content = LineErrFoo("7") \o LineErrFooAt(<<"9", "7">>) \o LineInfo
    /\ Len(error_lines) = 1
    /\ ~error_text.none

\* the step in which the resolver of the script runs: RelevanceResolver, or
\* FixDelegate in readrepotofix.py
Resolving == pc = (IF script = "readrepotofix" THEN "fix" ELSE "resolve")

\* ProjectFileSet: subdir_files in fixcompile.py and readrepotofix.py, the
\* files on disk in testfix.py
ProjectFileSet == get_subdir_files(pom_exists, java_files)

\* the files of ProjectFileSet that the error text refers to as <path>:<n>:
Referenced == ErrorFiles(error_text.s) \cap ProjectFileSet

\* in this step the resolver returns the file set fs
ResolverReturns(fs) ==
    IF script = "readrepotofix"
    THEN /\ raised' \notin {"FileUnreadable", "TypeError"}
         /\ FixFiles = fs
         /\ fs # {} => (/\ fix_request'.sent
                       /\ fix_request'.files = fs \cup KnowledgePaths)
    ELSE pc' = "fix" /\ files_to_fix' = fs

C15_Step ==
    Resolving =>
        \E fs \in SUBSET (ProjectFileSet \cup ErrorFiles(error_text.s)) :
            ResolverReturns(fs) /\ Referenced \subseteq fs

\* C15: every file of ProjectFileSet that the error text refers to is in the
\* file set the resolver returns, whatever the parse of the file gives.
C15_RelevanceSoundness == [][C15_Step]_vars

\* an element of the tree occurs in the error text: an import path, a class
\* name, or the member or qualifier name of a call
Confirmed(tree, text) ==
    \/ \E k \in DOMAIN tree.imports : ContainsSeq(text, tree.imports[k])
    \/ \E k \in DOMAIN tree.classes : ContainsSeq(text, tree.classes[k])
    \/ \E k \in DOMAIN tree.invocations :
          \/ ContainsSeq(text, tree.invocations[k].member)
          \/ /\ ~tree.invocations[k].qualifier.none
             /\ ContainsSeq(text, tree.invocations[k].qualifier.s)

\* the stage-1 candidates of the script
Stage1 ==
    IF script = "testfix" THEN ExistingFiles(error_text.s, java_files)
    ELSE CandidateFiles(error_text.s, get_subdir_files(pom_exists, java_files))

C16_Step ==
    (/\ Resolving
     /\ \A f \in Stage1 :
           /\ ast[DiskFile(f)].kind = "ok"
           /\ ~Confirmed(ast[DiskFile(f)], error_text.s))
        => ResolverReturns(Stage1 \cup (IF pom_exists THEN {POM_PATH} ELSE {}))

\* C16: when every stage-1 candidate parses and none is confirmed by its
\* tree, the resolver returns the stage-1 candidates and the descriptor if it
\* exists.
C16_RefinementKeepsStage1 == [][C16_Step]_vars

\* C17: whenever pom.xml exists it is in the file set the resolver returned,
\* and in the file list of every request sent to the agent.
C17_DescriptorIncluded ==
    pom_exists =>
        /\ (pc = "fix" /\ script # "readrepotofix") => POM_PATH \in files_to_fix
        /\ pc = "fix" => POM_PATH \in FixFiles
        /\ fix_request.sent => POM_PATH \in fix_request.files

C17_Witness ==
    /\ pom_exists
    /\ fix_request.sent
    /\ fix_request.files = {POM_PATH}
    /\ log_file.content = LineErrPlain \o LineFailure
    /\ n_agent = 1

C18_Step ==
    (/\ Resolving
     /\ ErrorFiles(error_text.s) = {}
     /\ ~pom_exists)
        => /\ ResolverReturns({})
           /\ warned' # "none"
           /\ warned' # Warning(script, error_text.s, TRUE, java_files, ast)

\* C18: when the error text refers to no file and pom.xml does not exist, the
\* resolver returns the empty set and prints a warning that it prints neither
\* for a normal resolution nor when the result is pom.xml alone.
C18_DegenerateSignalled == [][C18_Step]_vars

C19_Step ==
    /\ (pc = "fix" /\ FixFiles = {}) =>
           /\ n_fix' = n_fix + 1
           /\ n_agent' = n_agent
           /\ fix_request' = fix_request
           /\ state' \in {"RUNNING", "EXHAUSTED"}
           /\ i = MAX_ITERATIONS => fix_result' = "refused"
    /\ n_agent' # n_agent =>
           /\ pc = "fix"
           /\ FixFiles # {}
           /\ n_agent' = n_agent + 1
           /\ fix_request' = [FixRequest EXCEPT !.sent = TRUE]

\* C19: with an empty file set run_aider_fix returns False without invoking
\* the agent, and every request sent to the agent names at least one file
\* to fix.
C19_NoAgentWithoutFiles ==
    /\ [](fix_request.sent => fix_request.files \ KnowledgePaths # {})
    /\ [][C19_Step]_vars

C19_Witness ==
    /\ state = "EXHAUSTED"
    /\ fix_result = "refused"
    /\ n_fix = MAX_ITERATIONS
    /\ n_agent >= 1 /\ n_agent < n_fix
    /\ fix_request.sent

C20_Step ==
    (pc = "fix" /\ script = "readrepotofix" /\ FixFiles # {}) =>
        LET kws      == extract_error_keywords(error_text.s)
            rb       == RelevantBlocks(knowledge_files, kws)
            c        == fix_request'.knowledge.content
            whole    == {j \in DOMAIN c : \E k \in DOMAIN rb : rb[k].block = c[j]}
            first(b) == Min({k \in DOMAIN rb : rb[k].block = b})
        IN  \A j, k \in whole :
                j < k =>
                    /\ Score(c[j], kws) >= Score(c[k], kws)
                    /\ Score(c[j], kws) = Score(c[k], kws)
                           => first(c[j]) <= first(c[k])

\* C20: the blocks of the excerpt are in descending order of their score, and
\* blocks of equal score in the order in which the documents hold them.
C20_ExcerptOrdering == [][C20_Step]_vars

RECURSIVE BlockLines(_, _)
\* the number of lines of the blocks k.. of a sequence of blocks
BlockLines(blocks, k) ==
    IF k > Len(blocks) THEN 0
    ELSE Len(SplitLines(blocks[k])) + BlockLines(blocks, k + 1)

EndsWith(s, t) ==
    Len(s) >= Len(t) /\ SubSeq(s, Len(s) - Len(t) + 1, Len(s)) = t

\* the positive-score blocks of the request that FixDelegate is about to
\* build, and whether they exceed the line budget
PositiveBlocks ==
    LET rb == RelevantBlocks(knowledge_files,
                             extract_error_keywords(error_text.s))
    IN  [k \in DOMAIN rb |-> rb[k].block]
OverBudget == BlockLines(PositiveBlocks, 1) > MAX_KNOWLEDGE_LINES

C21_Step ==
    (pc = "fix" /\ script = "readrepotofix" /\ FixFiles # {}) =>
        LET out == fix_request'.knowledge
        IN  IF OverBudget
            THEN /\ BlockLines(out.content, 1) <= MAX_KNOWLEDGE_LINES
                 /\ EndsWith(out.text, KNOWLEDGE_NOTE)
            ELSE ~EndsWith(out.text, KNOWLEDGE_NOTE)

\* C21: when the positive-score blocks together exceed the line budget, the
\* excerpt holds at most the budget's number of block lines and ends with the
\* truncation marker; when they fit, no marker is appended.
C21_TruncationMarker == [][C21_Step]_vars

\* the parts of C21 the code keeps: the line budget, and no marker when the
\* blocks fit
C21_BudgetStep ==
    (pc = "fix" /\ script = "readrepotofix" /\ FixFiles # {}) =>
        /\ BlockLines(fix_request'.knowledge.content, 1) <= MAX_KNOWLEDGE_LINES
        /\ ~OverBudget => ~EndsWith(fix_request'.knowledge.text, KNOWLEDGE_NOTE)
C21_BudgetKept == [][C21_BudgetStep]_vars

\* a step of ErrorExtractor
ExtractorRuns == pc = "check" /\ n_extract' = n_extract + 1

C22_Step ==
    ExtractorRuns =>
        /\ error_log'.exists
        /\ NoNL(error_log'.content) = NoNL(Concat(error_lines'))

\* C22: after each ErrorExtractor run the trimmed-error artifact exists and
\* holds the text of the reports of the batch extracted in that run (compared
\* line ends aside), whatever it held before.
C22_ArtifactIsBatch == [][C22_Step]_vars

\* a step of LogCapture, and a step of FixDelegate
LogCaptureRuns == pc = "LogCapture" /\ n_builds' = n_builds + 1
FixDelegateRuns == pc = "fix" /\ n_fix' = n_fix + 1

C23_Step ==
    /\ LogCaptureRuns => n_builds = i - 1 /\ n_fix = i - 1
    /\ FixDelegateRuns =>
          /\ n_builds = i /\ n_extract = i /\ n_fix = i - 1
          /\ ~BothSucceeded(compile_success, test_success)
          /\ log_file = File(LogContent(compile_out, test_ran, test_out))
          /\ ~NoErrorsFound(error_text)
          /\ error_lines # <<>>
          /\ LET r == Extract(script, log_file.content)
             IN  error_text = r.text /\ error_lines = r.blocks

\* C23: iteration i starts its LogCapture after i - 1 LogCapture runs and
\* i - 1 FixDelegate calls, so once and after FixDelegate of iteration i - 1
\* has returned; each FixDelegate call of iteration i comes after the i-th
\* LogCapture run, whose outcome was not (success, success), and the i-th
\* ErrorExtractor run, whose batch was not empty, and gets the error text
\* extracted from that iteration's log.
C23_StrictOrdering == [][C23_Step]_vars

\* FixDelegate has returned in two iterations and the third has built
C23_Witness == i = 3 /\ n_fix = 2 /\ n_builds = 3 /\ n_agent >= 1 /\ pc = "check"

====
